---- MODULE Spec2Model ----
(***************************************************************************)
(* A model of src/annotate.js: the annotation-to-SVG compiler (getColor,   *)
(* generateId, the shape compilers, buildSvg) and the orchestration of one *)
(* annotate request (annotateImage).                                       *)
(*                                                                         *)
(* Representation.                                                         *)
(*  - A JavaScript object is a TLA+ record whose DOMAIN is the set of own  *)
(*    properties it carries; an absent property is an absent field.        *)
(*  - A value that reaches getColor (color, background, fill) is a tagged  *)
(*    JavaScript value: Str(s), Num(n), Bool(b), Undefined, Null, Fn(name).*)
(*  - Markup (a JavaScript string of SVG text) is a sequence of tokens; a  *)
(*    token is a record with a "tag".  The empty string is the empty       *)
(*    sequence, so the truthiness tests of the code are tests for <<>>.    *)
(*  - A text (label and callout content) is a sequence of one-character    *)
(*    strings, so escaping is computed character by character.             *)
(*  - Fractions of the code are kept as scaled integers (named where used).*)
(***************************************************************************)
EXTENDS Integers, Sequences, FiniteSets, TLC

VARIABLES
  idCounter,   \* annotate.js:98   let idCounter = 0  (process-wide)
  themes,      \* annotate.js:48   the THEMES table as the process holds it
  call,        \* the library call that has just returned, with what it returned
  reqs,        \* the annotateImage requests in flight, by request slot
  files        \* the filesystem: the set of paths that exist

vars == <<idCounter, themes, call, reqs, files>>

-----------------------------------------------------------------------------
(* JavaScript values                                                       *)

Str(s) == <<"string", s>>
Num(n) == <<"number", n>>
Bool(b) == <<"boolean", b>>
Undefined == <<"undefined">>
Null == <<"null">>
Fn(name) == <<"function", name>>
ProtoObj == <<"object", "Object.prototype">>

IsString(v) == v[1] = "string"

\* ToBoolean: the falsy values are undefined, null, '', 0 and false.
Truthy(v) ==
  CASE v[1] = "undefined" -> FALSE
    [] v[1] = "null" -> FALSE
    [] v[1] = "string" -> v[2] # ""
    [] v[1] = "number" -> v[2] # 0
    [] v[1] = "boolean" -> v[2]
    [] OTHER -> TRUE

\* a || b
JsOr(a, b) == IF Truthy(a) THEN a ELSE b

\* Decimal digits of a natural number, as String(n) writes them.
DigitChar(d) ==
  CASE d = 0 -> "0" [] d = 1 -> "1" [] d = 2 -> "2" [] d = 3 -> "3"
    [] d = 4 -> "4" [] d = 5 -> "5" [] d = 6 -> "6" [] d = 7 -> "7"
    [] d = 8 -> "8" [] d = 9 -> "9"

RECURSIVE Digits(_)
Digits(n) == IF n < 10 THEN <<DigitChar(n)>>
             ELSE Digits(n \div 10) \o <<DigitChar(n % 10)>>

\* String(n) for a natural number, as one property key.
RECURSIVE NumberKey(_)
NumberKey(n) == IF n < 10 THEN DigitChar(n)
                ELSE NumberKey(n \div 10) \o DigitChar(n % 10)

\* ToPropertyKey: the string a value is coerced to when it indexes an object.
PropertyKey(v) ==
  CASE v[1] = "string" -> v[2]
    [] v[1] = "undefined" -> "undefined"
    [] v[1] = "null" -> "null"
    [] v[1] = "boolean" -> IF v[2] THEN "true" ELSE "false"
    [] v[1] = "number" -> NumberKey(v[2])
    [] v[1] = "function" -> "function () { [native code] }"
    [] OTHER -> "[object Object]"

\* The members every object literal inherits from Object.prototype.
ObjectPrototypeFunctions ==
  {"constructor", "toString", "toLocaleString", "valueOf", "hasOwnProperty",
   "isPrototypeOf", "propertyIsEnumerable", "__defineGetter__",
   "__defineSetter__", "__lookupGetter__", "__lookupSetter__"}

InheritedMember(key) ==
  IF key \in ObjectPrototypeFunctions THEN Fn(key)
  ELSE IF key = "__proto__" THEN ProtoObj
  ELSE Undefined

-----------------------------------------------------------------------------
(* COLORS, THEMES                                                          *)

COLORS ==
  [red |-> "#E53935", orange |-> "#FB8C00", yellow |-> "#FDD835",
   green |-> "#43A047", blue |-> "#1E88E5", purple |-> "#8E24AA",
   pink |-> "#D81B60", cyan |-> "#00ACC1", teal |-> "#00897B",
   white |-> "#FFFFFF", black |-> "#212121", gray |-> "#757575",
   lightGray |-> "#E0E0E0", darkGray |-> "#424242",
   success |-> "#4CAF50", warning |-> "#FF9800", error |-> "#F44336",
   info |-> "#2196F3",
   primary |-> "#1976D2", secondary |-> "#7B1FA2", accent |-> "#FF4081"]

THEMES ==
  [documentation |->
     [marker |-> [color |-> Str("primary"), size |-> 28],
      arrow |-> [color |-> Str("primary"), strokeWidth |-> 3],
      label |-> [color |-> Str("primary"), fontSize |-> 18,
                 background |-> Str("white")],
      callout |-> [color |-> Str("primary"), background |-> Str("white")]],
   tutorial |->
     [marker |-> [color |-> Str("green"), size |-> 32],
      arrow |-> [color |-> Str("green"), strokeWidth |-> 4],
      label |-> [color |-> Str("darkGray"), fontSize |-> 20,
                 background |-> Str("lightGray")],
      callout |-> [color |-> Str("green"), background |-> Str("white")]],
   bugReport |->
     [marker |-> [color |-> Str("error"), size |-> 28],
      arrow |-> [color |-> Str("error"), strokeWidth |-> 3],
      label |-> [color |-> Str("error"), fontSize |-> 18,
                 background |-> Str("white")],
      callout |-> [color |-> Str("error"), background |-> Str("white")]],
   highlight |->
     [marker |-> [color |-> Str("warning"), size |-> 28],
      arrow |-> [color |-> Str("warning"), strokeWidth |-> 3],
      label |-> [color |-> Str("darkGray"), fontSize |-> 18,
                 background |-> Str("yellow")],
      callout |-> [color |-> Str("warning"), background |-> Str("yellow")]]]

\* COLORS[color]: an own property, else what the prototype chain gives.
ColorsLookup(color) ==
  LET key == PropertyKey(color)
  IN IF key \in DOMAIN COLORS THEN Str(COLORS[key]) ELSE InheritedMember(key)

\* function getColor(color) { return COLORS[color] || color || COLORS.red; }
getColor(color) == JsOr(ColorsLookup(color), JsOr(color, Str(COLORS.red)))

-----------------------------------------------------------------------------
(* Strings of markup                                                       *)

NL == [tag |-> "\n"]

\* Array.prototype.join: the strings of list, sep between neighbours.
RECURSIVE Join(_, _)
Join(list, sep) ==
  IF list = <<>> THEN <<>>
  ELSE IF Len(list) = 1 THEN list[1]
  ELSE list[1] \o sep \o Join(Tail(list), sep)

\* text.replace(/ch/g, rep) on a sequence of characters.
RECURSIVE ReplaceAll(_, _, _)
ReplaceAll(text, ch, rep) ==
  IF text = <<>> THEN <<>>
  ELSE (IF Head(text) = ch THEN rep ELSE <<Head(text)>>)
       \o ReplaceAll(Tail(text), ch, rep)

Amp == <<"&", "a", "m", "p", ";">>
Lt == <<"&", "l", "t", ";">>
Gt == <<"&", "g", "t", ";">>
Quot == <<"&", "q", "u", "o", "t", ";">>
Apos == <<"&", "a", "p", "o", "s", ";">>

\* escapeXml with the ampersand replaced last.
escapeXmlAmpLast(text) ==
  IF ~IsString(text) THEN Digits(text[2])
  ELSE ReplaceAll(ReplaceAll(ReplaceAll(ReplaceAll(ReplaceAll(
         text[2], "<", Lt), ">", Gt), "\"", Quot), "'", Apos), "&", Amp)

\* annotate.js:78  escapeXml.  A text is Str(<<characters>>) or Num(n).
escapeXml(text) ==
  IF ~IsString(text) THEN Digits(text[2])
  ELSE ReplaceAll(ReplaceAll(ReplaceAll(ReplaceAll(ReplaceAll(
         text[2], "&", Amp), "<", Lt), ">", Gt), "\"", Quot), "'", Apos)

\* generateId with idCounter + 1 in place of ++idCounter.
generateIdNoIncrement(prefix, counter) ==
  [id |-> <<prefix, "-">> \o Digits(counter + 1), counter |-> counter]

\* annotate.js:99  generateId: the id issued and the counter after ++idCounter.
generateId(prefix, counter) ==
  [id |-> <<prefix, "-">> \o Digits(counter + 1), counter |-> counter + 1]

\* `${id}-shadow`, `${id}-gradient`, `${id}-head`
Suffixed(id, suffix) == id \o <<"-", suffix>>

\* url(#id)
Url(id) == <<"url">> \o id

\* annotate.js:106  createDropShadow: one <filter> holding an <feDropShadow>.
\* opacity is kept in hundredths (0.3 is 30).
createDropShadow(id, blur, opacity100) ==
  <<[tag |-> "filter", id |-> id, primitive |-> "feDropShadow",
     stdDeviation |-> blur, opacity100 |-> opacity100]>>

\* Destructuring with a default: the property when the object carries it.
Get(d, f, default) == IF f \in DOMAIN d THEN d[f] ELSE default

\* The same for a tagged value, where an explicit undefined takes the default.
GetV(d, f, default) ==
  IF f \in DOMAIN d /\ d[f] # Undefined THEN d[f] ELSE default

\* What a compiler hands back: a fragment, or a TypeError thrown part-way.
Fragment(counter, id, defs, element) ==
  [threw |-> FALSE, counter |-> counter, id |-> id,
   defs |-> defs, element |-> element]

Thrown(counter, id) ==
  [threw |-> TRUE, counter |-> counter, id |-> id,
   defs |-> <<>>, element |-> <<>>]

NoId == <<>>

\* filter="url(#<id>-shadow)" or the empty string
FilterAttr(shadow, id) == IF shadow THEN Url(Suffixed(id, "shadow")) ELSE <<>>

\* annotate.js:532  adjustColor: hex.replace throws on a non-string; the
\* darkened colour is kept as the term adjustColor(hex, amount).
adjustColorThrowsAlways(hex) == TRUE
adjustColorThrows(hex) == ~IsString(hex)
adjustColor(hex, amount) == <<"adjustColor", hex, amount>>

-----------------------------------------------------------------------------
(* Shape compilers: each takes the merged descriptor and the id counter,   *)
(* and gives the fragment {defs, element} with the counter it leaves.      *)

Max(a, b) == IF a >= b THEN a ELSE b

\* annotate.js:117  createMarker.  width and height in tenths.
createMarker(d, counter) ==
  LET color == GetV(d, "color", Str("red"))
      size == Get(d, "size", 28)
      shadow == Get(d, "shadow", TRUE)
      style == Get(d, "style", "filled")
      numberChars == IF "number" \in DOMAIN d THEN Digits(d.number)
                     ELSE <<"u", "n", "d", "e", "f", "i", "n", "e", "d">>
      c == getColor(color)
      g == generateId("marker", counter)
      id == g.id
      gradientId == Suffixed(id, "gradient")
      defs == (IF shadow THEN <<createDropShadow(Suffixed(id, "shadow"), 4, 30)>>
               ELSE <<>>)
              \o <<  <<[tag |-> "linearGradient", id |-> gradientId,
                        stop0 |-> c, stop100 |-> adjustColor(c, -30)]>>  >>
      filterAttr == FilterAttr(shadow, id)
      label == [tag |-> "text", x |-> d.x, fill |-> Str("white"),
                fontSize10 |-> size * 9, chars |-> numberChars]
      isMultiDigit == "number" \in DOMAIN d /\ d.number > 9
      width10 == IF isMultiDigit THEN size * 16 ELSE size * 20
      height10 == size * 20
      elements ==
        IF style = "filled" THEN
          << <<[tag |-> "circle", cx |-> d.x, cy |-> d.y, r |-> size,
                fill |-> Url(gradientId), filter |-> filterAttr],
               [tag |-> "circle", cx |-> d.x, cy |-> d.y, r |-> size - 2,
                fill |-> Str("none"), filter |-> <<>>],
               label>> >>
        ELSE IF style = "outline" THEN
          << <<[tag |-> "circle", cx |-> d.x, cy |-> d.y, r |-> size,
                fill |-> Str("white"), stroke |-> c, filter |-> filterAttr],
               [label EXCEPT !.fill = c]>> >>
        ELSE IF style = "badge" THEN
          << <<[tag |-> "rect", x10 |-> d.x * 10 - width10 \div 2,
                y10 |-> d.y * 10 - height10 \div 2, width10 |-> width10,
                height10 |-> height10, rx10 |-> height10 \div 2,
                fill |-> Url(gradientId), filter |-> filterAttr],
               label>> >>
        ELSE <<>>
  IN IF adjustColorThrows(c) THEN Thrown(g.counter, id)
     ELSE Fragment(g.counter, id, Join(defs, <<NL>>), Join(elements, <<NL>>))

\* The <marker> of an arrow head: a filled polygon or an open polyline.
ArrowHead(id, headSize, shape, c) ==
  <<[tag |-> "marker", id |-> Suffixed(id, "head"), markerWidth |-> headSize,
     shape |-> shape, paint |-> c]>>

\* annotate.js:174  createArrow
createArrow(d, counter) ==
  LET color == GetV(d, "color", Str("red"))
      strokeWidth == Get(d, "strokeWidth", 3)
      style == Get(d, "style", "solid")
      headStyle == Get(d, "headStyle", "filled")
      shadow == Get(d, "shadow", TRUE)
      c == getColor(color)
      g == generateId("arrow", counter)
      id == g.id
      headSize == Max(10, strokeWidth * 3)
      defs == (IF shadow THEN <<createDropShadow(Suffixed(id, "shadow"), 2, 20)>>
               ELSE <<>>)
              \o (IF headStyle = "filled" THEN <<ArrowHead(id, headSize, "polygon", c)>>
                  ELSE IF headStyle = "open" THEN <<ArrowHead(id, headSize, "polyline", c)>>
                  ELSE <<>>)
      element == <<[tag |-> "line", from |-> d.from, to |-> d.to, stroke |-> c,
                    strokeWidth |-> strokeWidth,
                    markerEnd |-> Url(Suffixed(id, "head")),
                    dashArray |-> IF style = "dashed" THEN "10,5" ELSE "",
                    filter |-> FilterAttr(shadow, id)]>>
  IN IF "from" \notin DOMAIN d \/ "to" \notin DOMAIN d THEN Thrown(counter, NoId)
     ELSE Fragment(g.counter, id, Join(defs, <<NL>>), element)

\* annotate.js:220  createCurvedArrow.  The control point of the curve is the
\* midpoint moved by `curve` along the normal; it is carried as (from, to, curve).
createCurvedArrow(d, counter) ==
  LET color == GetV(d, "color", Str("red"))
      strokeWidth == Get(d, "strokeWidth", 3)
      curve == Get(d, "curve", 50)
      shadow == Get(d, "shadow", TRUE)
      c == getColor(color)
      g == generateId("curved-arrow", counter)
      id == g.id
      headSize == Max(10, strokeWidth * 3)
      defs == (IF shadow THEN <<createDropShadow(Suffixed(id, "shadow"), 2, 20)>>
               ELSE <<>>)
              \o <<ArrowHead(id, headSize, "polygon", c)>>
      element == <<[tag |-> "path", from |-> d.from, to |-> d.to, curve |-> curve,
                    stroke |-> c, strokeWidth |-> strokeWidth,
                    markerEnd |-> Url(Suffixed(id, "head")),
                    filter |-> FilterAttr(shadow, id)]>>
  IN IF "from" \notin DOMAIN d \/ "to" \notin DOMAIN d THEN Thrown(counter, NoId)
     ELSE Fragment(g.counter, id, Join(defs, <<NL>>), element)

\* text.split('\n') on a sequence of characters
RECURSIVE Split(_, _)
Split(text, cur) ==
  IF text = <<>> THEN <<cur>>
  ELSE IF Head(text) = "\n" THEN <<cur>> \o Split(Tail(text), <<>>)
  ELSE Split(Tail(text), Append(cur, Head(text)))

RECURSIVE MaxLineLen(_)
MaxLineLen(lines) ==
  IF lines = <<>> THEN 0 ELSE Max(Len(Head(lines)), MaxLineLen(Tail(lines)))

\* annotate.js:266  createCallout.  Lengths in tenths.
createCallout(d, counter) ==
  LET color == GetV(d, "color", Str("primary"))
      background == GetV(d, "background", Str("white"))
      width == Get(d, "width", 0)
      pointer == Get(d, "pointer", "bottom")
      fontSize == Get(d, "fontSize", 16)
      shadow == Get(d, "shadow", TRUE)
      borderColor == getColor(color)
      bgColor == getColor(background)
      g == generateId("callout", counter)
      id == g.id
      padding10 == 120
      lineHeight10 == fontSize * 14
      lines == Split(d.text[2], <<>>)
      textWidth10 == IF width # 0 THEN width * 10
                     ELSE MaxLineLen(lines) * fontSize * 6 + padding10 * 2
      textHeight10 == Len(lines) * lineHeight10 + padding10 * 2
      defs == IF shadow THEN <<createDropShadow(Suffixed(id, "shadow"), 4, 15)>>
              ELSE <<>>
      pointerSize10 == 120
      x10 == d.x * 10
      y10 == d.y * 10
      boxX10 == CASE pointer \in {"top", "bottom"} -> x10 - textWidth10 \div 2
                  [] pointer = "left" -> x10 + pointerSize10
                  [] pointer = "right" -> x10 - textWidth10 - pointerSize10
                  [] OTHER -> x10
      boxY10 == CASE pointer = "top" -> y10 + pointerSize10
                  [] pointer = "bottom" -> y10 - textHeight10 - pointerSize10
                  [] pointer \in {"left", "right"} -> y10 - textHeight10 \div 2
                  [] OTHER -> y10
      pointerPath == IF pointer \in {"top", "bottom", "left", "right"}
                     THEN <<[tag |-> "path", tip |-> <<d.x, d.y>>, side |-> pointer,
                             fill |-> bgColor, stroke |-> borderColor]>>
                     ELSE <<>>
      textElements ==
        [i \in 1..Len(lines) |->
           [tag |-> "tspan", x10 |-> boxX10 + padding10,
            dy10 |-> IF i = 1 THEN 0 ELSE lineHeight10,
            chars |-> escapeXml(Str(lines[i]))]]
      element ==
        <<[tag |-> "g", filter |-> FilterAttr(shadow, id)],
          [tag |-> "rect", x10 |-> boxX10, y10 |-> boxY10, width10 |-> textWidth10,
           height10 |-> textHeight10, fill |-> bgColor, stroke |-> borderColor]>>
        \o pointerPath
        \o <<[tag |-> "text", x10 |-> boxX10 + padding10,
              y10 |-> boxY10 + padding10 + fontSize * 10,
              fill |-> getColor(Str("darkGray")), fontSize |-> fontSize]>>
        \o textElements
        \o <<[tag |-> "/text"], [tag |-> "/g"]>>
  IN IF "text" \notin DOMAIN d \/ ~IsString(d.text) THEN Thrown(g.counter, id)
     ELSE Fragment(g.counter, id, Join(defs, <<NL>>), element)

\* annotate.js:340  createRect
createRect(d, counter) ==
  LET color == GetV(d, "color", Str("red"))
      strokeWidth == Get(d, "strokeWidth", 3)
      fill == GetV(d, "fill", Str("none"))
      cornerRadius == Get(d, "cornerRadius", 8)
      style == Get(d, "style", "solid")
      shadow == Get(d, "shadow", FALSE)
      c == getColor(color)
      fillColor == IF fill = Str("none") THEN Str("none") ELSE getColor(fill)
      g == generateId("rect", counter)
      id == g.id
      defs == IF shadow THEN <<createDropShadow(Suffixed(id, "shadow"), 4, 30)>>
              ELSE <<>>
      element == <<[tag |-> "rect", x |-> d.x, y |-> d.y, width |-> d.width,
                    height |-> d.height, rx |-> cornerRadius, fill |-> fillColor,
                    stroke |-> c, strokeWidth |-> strokeWidth,
                    dashArray |-> IF style = "dashed" THEN "10,5" ELSE "",
                    filter |-> FilterAttr(shadow, id)]>>
  IN Fragment(g.counter, id, Join(defs, <<NL>>), element)

\* annotate.js:364  createCircle
createCircle(d, counter) ==
  LET radius == Get(d, "radius", 30)
      color == GetV(d, "color", Str("red"))
      strokeWidth == Get(d, "strokeWidth", 3)
      fill == GetV(d, "fill", Str("none"))
      style == Get(d, "style", "solid")
      shadow == Get(d, "shadow", FALSE)
      c == getColor(color)
      fillColor == IF fill = Str("none") THEN Str("none") ELSE getColor(fill)
      g == generateId("circle", counter)
      id == g.id
      defs == IF shadow THEN <<createDropShadow(Suffixed(id, "shadow"), 4, 30)>>
              ELSE <<>>
      element == <<[tag |-> "circle", cx |-> d.x, cy |-> d.y, r |-> radius,
                    fill |-> fillColor, stroke |-> c, strokeWidth |-> strokeWidth,
                    dashArray |-> IF style = "dashed" THEN "8,4" ELSE "",
                    filter |-> FilterAttr(shadow, id)]>>
  IN Fragment(g.counter, id, Join(defs, <<NL>>), element)

\* NaN, where a length is computed from a text that has no length.
NaN == -1

\* annotate.js:388  createLabel.  Lengths in tenths.
createLabel(d, counter) ==
  LET color == GetV(d, "color", Str("darkGray"))
      fontSize == Get(d, "fontSize", 16)
      fontWeight == Get(d, "fontWeight", "bold")
      background == GetV(d, "background", Null)
      padding == Get(d, "padding", 8)
      cornerRadius == Get(d, "cornerRadius", 4)
      shadow == Get(d, "shadow", FALSE)
      textColor == getColor(color)
      g == generateId("label", counter)
      id == g.id
      textWidth10 == IF IsString(d.text) THEN Len(d.text[2]) * fontSize * 6 ELSE NaN
      textHeight10 == fontSize * 12
      plated == Truthy(background)
      defs == IF shadow /\ plated
              THEN <<createDropShadow(Suffixed(id, "shadow"), 3, 15)>> ELSE <<>>
      filterAttr == FilterAttr(shadow /\ plated, id)
      elements ==
        (IF plated
         THEN << <<[tag |-> "rect", x10 |-> (d.x - padding) * 10,
                    y10 |-> d.y * 10 - textHeight10 - padding * 10 + 40,
                    width10 |-> IF textWidth10 = NaN THEN NaN
                                ELSE textWidth10 + padding * 20,
                    height10 |-> textHeight10 + padding * 20,
                    rx |-> cornerRadius, fill |-> getColor(background),
                    filter |-> filterAttr]>> >>
         ELSE <<>>)
        \o << <<[tag |-> "text", x |-> d.x, y |-> d.y, fill |-> textColor,
                 fontSize |-> fontSize, fontWeight |-> fontWeight,
                 chars |-> escapeXml(d.text)]>> >>
  IN IF "text" \notin DOMAIN d THEN Thrown(g.counter, id)
     ELSE Fragment(g.counter, id, Join(defs, <<NL>>), Join(elements, <<NL>>))

\* annotate.js:424  createHighlight.  opacity in hundredths.
createHighlight(d, counter) ==
  LET color == GetV(d, "color", Str("yellow"))
      opacity100 == Get(d, "opacity", 35)
      cornerRadius == Get(d, "cornerRadius", 0)
      c == getColor(color)
  IN Fragment(counter, NoId, <<>>,
       <<[tag |-> "rect", x |-> d.x, y |-> d.y, width |-> d.width,
          height |-> d.height, rx |-> cornerRadius, fill |-> c,
          opacity100 |-> opacity100]>>)

\* annotate.js:435  createBlur
createBlur(d, counter) ==
  LET intensity == Get(d, "intensity", 8)
      g == generateId("blur", counter)
      id == g.id
  IN Fragment(g.counter, id,
       <<[tag |-> "filter", id |-> id, primitive |-> "feGaussianBlur",
          stdDeviation |-> intensity, opacity100 |-> 100]>>,
       <<[tag |-> "rect", x |-> d.x, y |-> d.y, width |-> d.width,
          height |-> d.height, fill |-> Str("#808080"), filter |-> Url(id)]>>)

\* annotate.js:450  createConnector
createConnector(d, counter) ==
  LET color == GetV(d, "color", Str("gray"))
      strokeWidth == Get(d, "strokeWidth", 2)
      style == Get(d, "style", "dashed")
      c == getColor(color)
  IN IF "from" \notin DOMAIN d \/ "to" \notin DOMAIN d THEN Thrown(counter, NoId)
     ELSE Fragment(counter, NoId, <<>>,
            <<[tag |-> "line", from |-> d.from, to |-> d.to, stroke |-> c,
               strokeWidth |-> strokeWidth,
               dashArray |-> IF style = "dashed" THEN "6,4" ELSE ""]>>)

\* The switch of createIcon: the glyph drawn for an icon name, '' by default.
IconGlyph(icon) ==
  CASE icon \in {"check", "checkmark"} -> "check"
    [] icon \in {"x", "cross"} -> "cross"
    [] icon \in {"warning", "!"} -> "warning"
    [] icon \in {"info", "i"} -> "info"
    [] icon \in {"question", "?"} -> "question"
    [] OTHER -> ""

\* annotate.js:465  createIcon
createIcon(d, counter) ==
  LET color == GetV(d, "color", Str("green"))
      size == Get(d, "size", 24)
      shadow == Get(d, "shadow", TRUE)
      c == getColor(color)
      g == generateId("icon", counter)
      id == g.id
      defs == IF shadow THEN <<createDropShadow(Suffixed(id, "shadow"), 4, 30)>>
              ELSE <<>>
      glyph == IconGlyph(Get(d, "icon", "undefined"))
      iconPath == IF glyph = "" THEN <<>>
                  ELSE <<[tag |-> "glyph", glyph |-> glyph, x |-> d.x, y |-> d.y,
                          size |-> size]>>
      element == <<[tag |-> "g", filter |-> FilterAttr(shadow, id)],
                   [tag |-> "circle", cx |-> d.x, cy |-> d.y, r |-> size,
                    fill |-> c]>>
                 \o iconPath \o <<[tag |-> "/g"]>>
  IN Fragment(g.counter, id, Join(defs, <<NL>>), element)

-----------------------------------------------------------------------------
(* buildSvg                                                                *)

\* theme ? THEMES[theme] : null, then themeDefaults[ann.type].  The falsy
\* theme is "".  found says the conjunction of line 555 is truthy; an
\* inherited member of Object.prototype is truthy and has no own enumerable
\* property to spread.
ThemeDefaults(table, theme, type) ==
  LET inherited == ObjectPrototypeFunctions \cup {"__proto__"}
      none == [found |-> FALSE, fields |-> <<>>]
  IN IF theme = "" THEN none
     ELSE IF theme \in DOMAIN table
       THEN IF type \in DOMAIN table[theme]
              THEN [found |-> TRUE, fields |-> table[theme][type]]
            ELSE IF type \in inherited THEN [found |-> TRUE, fields |-> <<>>]
            ELSE none
     ELSE IF theme \in inherited /\ type \in inherited
       THEN [found |-> TRUE, fields |-> <<>>]
     ELSE none

\* { ...b, ...a }: the spread with its operands exchanged.
ObjectSpreadDefaultsWin(a, b) ==
  [f \in DOMAIN a \cup DOMAIN b |-> IF f \in DOMAIN a THEN a[f] ELSE b[f]]

\* { ...a, ...b }: a new object with the properties of a, then those of b.
ObjectSpread(a, b) ==
  [f \in DOMAIN a \cup DOMAIN b |-> IF f \in DOMAIN b THEN b[f] ELSE a[f]]

\* ann.type, undefined when the descriptor carries none
TypeOf(ann) == Get(ann, "type", "undefined")

\* The merge written as an assignment of the defaults into the annotation.
MergeIntoAnnotation(table, theme, ann) ==
  [mergedAnn |-> IF ThemeDefaults(table, theme, TypeOf(ann)).found
                 THEN ObjectSpread(ThemeDefaults(table, theme, TypeOf(ann)).fields, ann)
                 ELSE ann,
   ann |-> IF ThemeDefaults(table, theme, TypeOf(ann)).found
           THEN ObjectSpread(ThemeDefaults(table, theme, TypeOf(ann)).fields, ann)
           ELSE ann,
   table |-> table]

\* annotate.js:555  the merge with the theme defaults: the descriptor handed
\* to the compiler, and the caller's annotation and the THEMES table as the
\* merge leaves them (the spread builds a new object and writes to neither).
MergeWithTheme(table, theme, ann) ==
  LET td == ThemeDefaults(table, theme, TypeOf(ann))
  IN [mergedAnn |-> IF td.found THEN ObjectSpread(td.fields, ann) ELSE ann,
      ann |-> ann,
      table |-> table]

\* The switch without the alias labels.
DispatchCanonicalOnly(type) ==
  CASE type = "marker" -> "createMarker"
    [] type = "arrow" -> "createArrow"
    [] type = "curved-arrow" -> "createCurvedArrow"
    [] type = "callout" -> "createCallout"
    [] type = "rect" -> "createRect"
    [] type = "circle" -> "createCircle"
    [] type = "label" -> "createLabel"
    [] type = "highlight" -> "createHighlight"
    [] type = "blur" -> "createBlur"
    [] type = "connector" -> "createConnector"
    [] type = "icon" -> "createIcon"
    [] OTHER -> "skip"

\* annotate.js:561  the switch on ann.type: the compiler, or "skip" (default).
Dispatch(type) ==
  CASE type \in {"marker", "number"} -> "createMarker"
    [] type = "arrow" -> "createArrow"
    [] type \in {"curved-arrow", "curvedArrow"} -> "createCurvedArrow"
    [] type = "callout" -> "createCallout"
    [] type \in {"rect", "rectangle", "box"} -> "createRect"
    [] type = "circle" -> "createCircle"
    [] type \in {"label", "text"} -> "createLabel"
    [] type = "highlight" -> "createHighlight"
    [] type = "blur" -> "createBlur"
    [] type \in {"connector", "line"} -> "createConnector"
    [] type = "icon" -> "createIcon"
    [] OTHER -> "skip"

Compile(arm, d, counter) ==
  CASE arm = "createMarker" -> createMarker(d, counter)
    [] arm = "createArrow" -> createArrow(d, counter)
    [] arm = "createCurvedArrow" -> createCurvedArrow(d, counter)
    [] arm = "createCallout" -> createCallout(d, counter)
    [] arm = "createRect" -> createRect(d, counter)
    [] arm = "createCircle" -> createCircle(d, counter)
    [] arm = "createLabel" -> createLabel(d, counter)
    [] arm = "createHighlight" -> createHighlight(d, counter)
    [] arm = "createBlur" -> createBlur(d, counter)
    [] arm = "createConnector" -> createConnector(d, counter)
    [] arm = "createIcon" -> createIcon(d, counter)

\* buildSvg without the reset.
KeepCounter(counter) == counter

\* annotate.js:545  idCounter = 0
ResetCounter(counter) == 0

\* unshift in place of push.
PushFront(list, item) == <<item>> \o list

\* defs.push(result.defs), elements.push(result.element)
Push(list, item) == Append(list, item)

\* What one iteration did, for the record of the build.
StepRecord(i, arm, mergedAnn, result) ==
  [index |-> i, arm |-> arm, mergedAnn |-> mergedAnn, id |-> result.id,
   threw |-> result.threw, defs |-> result.defs, element |-> result.element]

\* The default arm throwing in place of continue.
AbortOnUnknown(b, type, step) ==
  [b EXCEPT !.threw = TRUE, !.steps = Append(@, step)]

\* annotate.js:601-603  the default arm: console.warn and continue.
SkipUnknown(b, type, step) ==
  [b EXCEPT !.warnings = Append(@, type), !.steps = Append(@, step)]

\* annotate.js:606-609  collect the fragment; a throw leaves buildSvg at once.
Collect(b, result, step) ==
  [b EXCEPT
     !.counter = result.counter,
     !.threw = result.threw,
     !.defs = IF ~result.threw /\ result.defs # <<>>
              THEN Push(@, result.defs) ELSE @,
     !.elements = IF ~result.threw /\ result.element # <<>>
                  THEN Push(@, result.element) ELSE @,
     !.steps = Append(@, step)]

Compiled(b, i, arm, mergedAnn, result) ==
  Collect(b, result, StepRecord(i, arm, mergedAnn, result))

Dispatched(b, i, arm, m) ==
  IF arm = "skip"
    THEN SkipUnknown([b EXCEPT !.themes = m.table, !.annotations[i] = m.ann],
                     TypeOf(b.annotations[i]),
                     StepRecord(i, arm, m.mergedAnn, Fragment(b.counter, NoId, <<>>, <<>>)))
  ELSE Compiled([b EXCEPT !.themes = m.table, !.annotations[i] = m.ann],
                i, arm, m.mergedAnn, Compile(arm, m.mergedAnn, b.counter))

\* annotate.js:553-610  one iteration of the loop over the annotations.  b is
\* the state of the build: the counter, the THEMES table, the caller's list
\* as the build leaves it, the two arrays, the diagnostics written, and the
\* record of what each iteration did (steps).
BuildStep(b, theme, i) ==
  Dispatched(b, i, Dispatch(TypeOf(b.annotations[i])),
             MergeWithTheme(b.themes, theme, b.annotations[i]))

RECURSIVE BuildLoop(_, _, _)
BuildLoop(b, theme, i) ==
  IF i > Len(b.annotations) \/ b.threw THEN b
  ELSE BuildLoop(BuildStep(b, theme, i), theme, i + 1)

\* annotate.js:612  the document: the envelope, one <defs> block, the elements.
Document(width, height, defs, elements) ==
  <<[tag |-> "?xml"], [tag |-> "svg", width |-> width, height |-> height],
    [tag |-> "defs"]>>
  \o Join(defs, <<NL>>)
  \o <<[tag |-> "/defs"]>>
  \o Join(elements, <<NL>>)
  \o <<[tag |-> "/svg"]>>

\* annotate.js:612-618  what buildSvg leaves and returns.  svg is the string
\* returned (<<>> when a compiler threw and nothing is returned).
BuildResult(b, width, height) ==
  [threw |-> b.threw,
   svg |-> IF b.threw THEN <<>>
           ELSE Document(width, height, b.defs, b.elements),
   counter |-> b.counter, themes |-> b.themes,
   annotations |-> b.annotations, warnings |-> b.warnings,
   steps |-> b.steps]

\* annotate.js:543  buildSvg, run in a process whose counter is `counter` and
\* whose THEMES table is `table`.
buildSvg(counter, table, width, height, annotations, theme) ==
  BuildResult(
    BuildLoop([counter |-> ResetCounter(counter), themes |-> table,
               annotations |-> annotations, defs |-> <<>>, elements |-> <<>>,
               warnings |-> <<>>, steps |-> <<>>, threw |-> FALSE],
              theme, 1),
    width, height)

-----------------------------------------------------------------------------
(* The inputs the model draws a call's arguments from                      *)

MaxAnns == 3
MaxTextLen == 3

Override(d, o) == [f \in DOMAIN d \cup DOMAIN o |-> IF f \in DOMAIN o THEN o[f] ELSE d[f]]
Without(d, f) == [g \in DOMAIN d \ {f} |-> d[g]]

TextHi == <<"H", "i">>
TextAB == <<"<", "A", " ", "&", " ", "B", ">">>
TextQuoted == <<"\"", "a", "'", "&", "a", "m", "p", ";">>
TextTwoLines == <<"a", "\n", "b", "<", "c">>

\* One minimal descriptor per canonical type: geometry and content only.
Minimal(type) ==
  CASE type = "marker" -> [type |-> type, x |-> 10, y |-> 10, number |-> 1]
    [] type \in {"arrow", "curved-arrow", "connector"} ->
         [type |-> type, from |-> <<10, 10>>, to |-> <<50, 40>>]
    [] type \in {"callout", "label"} ->
         [type |-> type, x |-> 40, y |-> 60, text |-> Str(TextHi)]
    [] type \in {"rect", "highlight", "blur"} ->
         [type |-> type, x |-> 5, y |-> 5, width |-> 30, height |-> 20]
    [] type = "circle" -> [type |-> type, x |-> 50, y |-> 50, radius |-> 20]
    [] type = "icon" -> [type |-> type, x |-> 70, y |-> 20, icon |-> "check"]

CanonicalTypes ==
  {"marker", "arrow", "curved-arrow", "callout", "rect", "circle", "label",
   "highlight", "blur", "connector", "icon"}

\* alias -> canonical type
Aliases ==
  [number |-> "marker", curvedArrow |-> "curved-arrow", rectangle |-> "rect",
   box |-> "rect", text |-> "label", line |-> "connector"]

Retyped(d, type) == [d EXCEPT !.type = type]

MinimalDescriptors ==
  {Minimal(t) : t \in CanonicalTypes}
  \cup {Retyped(Minimal(Aliases[a]), a) : a \in DOMAIN Aliases}

UnknownDescriptors ==
  {[type |-> "sparkle", x |-> 1, y |-> 1],
   [type |-> "constructor", x |-> 1, y |-> 1],
   [type |-> "Marker", x |-> 1, y |-> 1, number |-> 1],
   [x |-> 1, y |-> 1]}

ColorVariants ==
  {[color |-> Str("blue")], [color |-> Str("#123456")],
   [color |-> Str("papayawhip")], [color |-> Str("")], [color |-> Undefined]}

StyledDescriptors ==
  {Override(Minimal(t), o) : t \in {"marker", "arrow", "rect", "label", "callout"},
                             o \in ColorVariants}
  \cup {Override(Minimal("marker"), o) :
          o \in {[style |-> "outline"], [style |-> "badge"],
                 [style |-> "badge", number |-> 15], [shadow |-> FALSE],
                 [style |-> "ghost"], [size |-> 40, color |-> Str("red")],
                 [color |-> Str("constructor")]}}
  \cup {Override(Retyped(Minimal("marker"), "number"), [color |-> Str("teal")])}
  \cup {Override(Minimal("arrow"), o) :
          o \in {[headStyle |-> "open"], [headStyle |-> "none"],
                 [style |-> "dashed"], [shadow |-> FALSE],
                 [strokeWidth |-> 5, color |-> Str("blue")]}}
  \cup {Override(Minimal("curved-arrow"), [curve |-> 20, shadow |-> FALSE])}
  \cup {Override(Minimal("callout"), o) :
          o \in {[pointer |-> "top"], [pointer |-> "left"], [pointer |-> "right"],
                 [pointer |-> "none"], [text |-> Str(TextTwoLines)],
                 [text |-> Str(TextAB)], [width |-> 120], [shadow |-> FALSE],
                 [background |-> Str("yellow"), color |-> Str("blue")]}}
  \cup {Override(Minimal("label"), o) :
          o \in {[background |-> Str("white")],
                 [background |-> Str("white"), shadow |-> TRUE],
                 [shadow |-> TRUE], [text |-> Str(TextAB)],
                 [text |-> Str(TextQuoted)], [text |-> Num(42)],
                 [fontSize |-> 30, color |-> Str("blue")]}}
  \cup {Override(Minimal("rect"), o) :
          o \in {[fill |-> Str("blue")], [style |-> "dashed"], [shadow |-> TRUE]}}
  \cup {Override(Minimal("circle"), o) :
          o \in {[fill |-> Str("blue")], [style |-> "dashed"], [shadow |-> TRUE]}}
  \cup {Override(Minimal("highlight"), [color |-> Str("blue"), opacity |-> 50]),
        Override(Minimal("blur"), [intensity |-> 3]),
        Override(Minimal("connector"), [style |-> "solid"])}
  \cup {Override(Minimal("icon"), o) :
          o \in {[icon |-> "x"], [icon |-> "warning"], [icon |-> "i"],
                 [icon |-> "?"], [icon |-> "star"], [shadow |-> FALSE]}}
  \cup {Without(Minimal("icon"), "icon")}

\* Descriptors that lack a field their compiler reads without a default.
MalformedDescriptors ==
  {Without(Minimal("arrow"), "from"), Without(Minimal("curved-arrow"), "to"),
   Without(Minimal("connector"), "from"), Without(Minimal("callout"), "text"),
   Without(Minimal("label"), "text"),
   Override(Minimal("callout"), [text |-> Num(5)])}

\* The characters texts are made of, and every text of up to n of them.
TextAlphabet == {"&", "<", ">", "\"", "'", "a", "\n"}

RECURSIVE TextsUpTo(_)
TextsUpTo(n) ==
  IF n = 0 THEN {<<>>}
  ELSE LET shorter == TextsUpTo(n - 1)
       IN shorter \cup {Append(t, ch) : t \in {u \in shorter : Len(u) = n - 1},
                                         ch \in TextAlphabet}

\* A label and a callout for each such text.
TextDescriptors ==
  {Override(Minimal(t), [text |-> Str(chars)]) :
     t \in {"label", "callout"}, chars \in TextsUpTo(MaxTextLen)}

AllDescriptors ==
  MinimalDescriptors \cup UnknownDescriptors \cup StyledDescriptors
  \cup MalformedDescriptors \cup TextDescriptors

\* The descriptors that lists of two and more are made of.
CoreDescriptors ==
  {Minimal("marker"), Minimal("arrow"), Retyped(Minimal("rect"), "box"),
   Minimal("highlight"),
   [type |-> "sparkle", x |-> 1, y |-> 1],
   Override(Minimal("marker"), [style |-> "ghost"]),
   Without(Minimal("callout"), "text")}

RECURSIVE ListsOf(_, _)
ListsOf(S, n) ==
  IF n = 0 THEN {<<>>}
  ELSE LET shorter == ListsOf(S, n - 1)
       IN shorter \cup {Append(l, d) : l \in {k \in shorter : Len(k) = n - 1}, d \in S}

AnnotationLists ==
  {<<d>> : d \in AllDescriptors} \cup ListsOf(CoreDescriptors, MaxAnns)

\* theme: none (falsy), the four themes, an unknown name, an inherited name
ThemeArgs == {"", "documentation", "tutorial", "bugReport", "highlight",
              "neon", "constructor"}

Canvases == {<<100, 100>>, <<200, 50>>}

\* What getColor is called with.
ColorInputs ==
  {Str(n) : n \in DOMAIN COLORS}
  \cup {Str("#123456"), Str("papayawhip"), Str("rgb(1,2,3)"), Str("Blue"),
        Str("constructor"), Str("toString"), Str("__proto__"),
        Str(""), Undefined, Null, Num(0), Bool(FALSE), Num(5), Bool(TRUE)}

-----------------------------------------------------------------------------
(* The library used directly: calls of buildSvg and of getColor            *)

NoCall == [op |-> "none"]

\* buildSvg(width, height, annotations, theme) runs to completion and the
\* caller holds what it returned.  counterBefore is idCounter at the call.
CallBuildSvg ==
  /\ call = NoCall
  /\ \E canvas \in Canvases, annotations \in AnnotationLists, theme \in ThemeArgs :
       \E r \in {buildSvg(idCounter, themes, canvas[1], canvas[2], annotations, theme)} :
          /\ idCounter' = r.counter
          /\ themes' = r.themes
          /\ call' = [op |-> "buildSvg", width |-> canvas[1], height |-> canvas[2],
                      annotations |-> annotations, theme |-> theme,
                      counterBefore |-> idCounter,
                      threw |-> r.threw, svg |-> r.svg, after |-> r.annotations,
                      warnings |-> r.warnings, steps |-> r.steps]
  /\ UNCHANGED <<reqs, files>>

\* getColor(color), for each kind of value it can be handed.
CallGetColor ==
  /\ call = NoCall
  /\ \E color \in ColorInputs :
       call' = [op |-> "getColor", color |-> color, returned |-> getColor(color)]
  /\ UNCHANGED <<idCounter, themes, reqs, files>>

\* The caller is done with the result.
Return ==
  /\ call # NoCall
  /\ call' = NoCall
  /\ UNCHANGED <<idCounter, themes, reqs, files>>


-----------------------------------------------------------------------------
(* annotateImage: one request is a promise that runs between its awaits    *)

Requests == {"r1", "r2"}

\* The filesystem at the start: a 100x100 image, a 200x50 image, a file that
\* is no image.  "missing.png" is not there; nothing can be written under
\* "/readonly".
InitialFiles ==
  [p \in {"photo.png", "banner.png", "notes.txt"} |->
     CASE p = "photo.png" -> [kind |-> "image", width |-> 100, height |-> 100]
       [] p = "banner.png" -> [kind |-> "image", width |-> 200, height |-> 50]
       [] OTHER -> [kind |-> "text", width |-> 0, height |-> 0]]

InputPaths == {"photo.png", "banner.png", "notes.txt", "missing.png"}
OutputPaths == {"out.png", "/readonly/out.png"}
Writable(path) == path # "/readonly/out.png"

RequestLists ==
  {<<Minimal("circle")>>,
   <<Minimal("marker"), [type |-> "sparkle", x |-> 1, y |-> 1], Minimal("arrow")>>,
   <<Minimal("marker"), Without(Minimal("callout"), "text")>>,
   <<Without(Minimal("arrow"), "from")>>}

\* The options object: main's { theme }, and one that also carries a width
\* and a height of the caller's.
RequestOptions ==
  {[theme |-> ""], [theme |-> "tutorial", width |-> 640, height |-> 480]}

\* annotate.js:635  options.theme
OptionsTheme(options) ==
  IF "theme" \in DOMAIN options THEN options.theme ELSE ""

\* counterBefore is idCounter as the request's build found it.
Idle ==
  [pc |-> "idle", inputPath |-> "", outputPath |-> "", annotations |-> <<>>,
   options |-> [theme |-> ""], log |-> <<>>, width |-> 0, height |-> 0,
   counterBefore |-> 0, svg |-> <<>>, error |-> "", result |-> <<>>]

\* fs.existsSync(path)
existsSync(fs, path) == path \in DOMAIN fs

\* annotateImage without its existence check.
StartAnnotateUnchecked(fs, inputPath, outputPath, annotations, options) ==
  [Idle EXCEPT !.inputPath = inputPath, !.outputPath = outputPath,
               !.annotations = annotations, !.options = options,
               !.pc = "metadata", !.log = <<"metadata:start">>]

\* annotate.js:624-631  annotateImage up to its first await: the existence
\* check, then the metadata read is started.
StartAnnotate(fs, inputPath, outputPath, annotations, options) ==
  LET req == [Idle EXCEPT !.inputPath = inputPath, !.outputPath = outputPath,
                          !.annotations = annotations, !.options = options]
  IN IF ~existsSync(fs, inputPath)
       THEN [req EXCEPT !.pc = "rejected", !.error = "Input file not found"]
     ELSE [req EXCEPT !.pc = "metadata", !.log = <<"metadata:start">>]

\* sharp(path).metadata() settles: the dimensions of an image that is there.
MetadataReadable(fs, path) == path \in DOMAIN fs /\ fs[path].kind = "image"

\* The build's error swallowed and the compositing started all the same.
AfterBuildGoesOn(req, built) ==
  IF built.threw
    THEN [req EXCEPT !.pc = "composite",
                     !.log = @ \o <<"build:start", "build:threw", "composite:start">>]
  ELSE [req EXCEPT !.pc = "composite", !.svg = built.svg,
                   !.log = @ \o <<"build:start", "build:done", "composite:start">>]

\* annotate.js:635-644  after the build: a throw rejects the promise, else
\* the svg is handed to sharp(...).composite(...).toFile(outputPath).
AfterBuild(req, built) ==
  IF built.threw
    THEN [req EXCEPT !.pc = "rejected", !.error = "TypeError",
                     !.log = @ \o <<"build:start", "build:threw">>]
  ELSE [req EXCEPT !.pc = "composite", !.svg = built.svg,
                   !.log = @ \o <<"build:start", "build:done", "composite:start">>]

\* The caller's options deciding the size when they carry one.
WithCallerDimensions(req, meta) ==
  [req EXCEPT
     !.width = IF "width" \in DOMAIN req.options THEN req.options.width ELSE meta.width,
     !.height = IF "height" \in DOMAIN req.options THEN req.options.height ELSE meta.height,
     !.log = Append(@, "metadata:done")]

\* annotate.js:631-632  the metadata read has resolved with {width, height}.
WithMetadata(req, meta) ==
  [req EXCEPT !.width = meta.width, !.height = meta.height,
              !.log = Append(@, "metadata:done")]

MetadataFailed(req) ==
  [req EXCEPT !.pc = "rejected", !.error = "FileError",
              !.log = Append(@, "metadata:failed")]

\* The summary counting the annotations that were rendered.
SummaryOfRendered(req) ==
  [outputPath |-> req.outputPath, width |-> req.width, height |-> req.height,
   annotationCount |->
     Cardinality({i \in 1..Len(req.annotations) :
                    Dispatch(TypeOf(req.annotations[i])) # "skip"})]

\* annotate.js:646-651  the summary the promise resolves with.
Summary(req) ==
  [outputPath |-> req.outputPath, width |-> req.width, height |-> req.height,
   annotationCount |-> Len(req.annotations)]

\* annotate.js:646  the composite has resolved: return the summary.
Resolved(req) ==
  [req EXCEPT !.pc = "resolved", !.result = Summary(req),
              !.log = Append(@, "composite:done")]

\* annotate.js:638  the composite has rejected: the error goes to the caller.
CompositeFailed(req) ==
  [req EXCEPT !.pc = "rejected", !.error = "FileError",
              !.log = Append(@, "composite:failed")]

\* A caller calls annotateImage(inputPath, outputPath, annotations, {theme}).
Annotate(r) ==
  /\ reqs[r].pc = "idle"
  /\ \E inputPath \in InputPaths, outputPath \in OutputPaths,
        annotations \in RequestLists, options \in RequestOptions :
       reqs' = [reqs EXCEPT ![r] =
                  StartAnnotate(files, inputPath, outputPath, annotations, options)]
  /\ UNCHANGED <<idCounter, themes, call, files>>

\* The awaited metadata read settles and the request runs on, without a
\* break, through buildSvg to the start of the compositing.
MetadataSettles(r) ==
  /\ reqs[r].pc = "metadata"
  /\ IF MetadataReadable(files, reqs[r].inputPath)
       THEN \E req \in {WithMetadata(reqs[r], files[reqs[r].inputPath])} :
            \E built \in {buildSvg(idCounter, themes, req.width, req.height,
                                   req.annotations, OptionsTheme(req.options))} :
              /\ idCounter' = built.counter
              /\ themes' = built.themes
              /\ reqs' = [reqs EXCEPT ![r] =
                           AfterBuild([req EXCEPT !.counterBefore = idCounter], built)]
     ELSE /\ reqs' = [reqs EXCEPT ![r] = MetadataFailed(reqs[r])]
          /\ UNCHANGED <<idCounter, themes>>
  /\ UNCHANGED <<call, files>>

\* The awaited composite-and-write settles: the output file is written whole
\* and the promise resolves, or nothing is written and it rejects.
CompositeSettles(r) ==
  /\ reqs[r].pc = "composite"
  /\ IF MetadataReadable(files, reqs[r].inputPath) /\ Writable(reqs[r].outputPath)
       THEN /\ files' = [p \in DOMAIN files \cup {reqs[r].outputPath} |->
                           IF p = reqs[r].outputPath
                           THEN [kind |-> "image", width |-> reqs[r].width,
                                 height |-> reqs[r].height]
                           ELSE files[p]]
            /\ reqs' = [reqs EXCEPT ![r] = Resolved(reqs[r])]
     ELSE /\ reqs' = [reqs EXCEPT ![r] = CompositeFailed(reqs[r])]
          /\ UNCHANGED files
  /\ UNCHANGED <<idCounter, themes, call>>

\* The caller has taken the settled promise.
Settled(r) ==
  /\ reqs[r].pc \in {"resolved", "rejected"}
  /\ reqs' = [reqs EXCEPT ![r] = Idle]
  /\ UNCHANGED <<idCounter, themes, call, files>>

NoRequests == <<>>

Init ==
  /\ idCounter = 0
  /\ themes = THEMES
  /\ call = NoCall
  /\ reqs = NoRequests
  /\ files = {}

Next ==
  \/ CallBuildSvg
  \/ CallGetColor
  \/ Return

Spec == Init /\ [][Next]_vars

\* The process serving annotate requests.
InitAnnotate ==
  /\ idCounter = 0
  /\ themes = THEMES
  /\ call = NoCall
  /\ reqs = [r \in Requests |-> Idle]
  /\ files = InitialFiles

NextAnnotate ==
  \E r \in Requests :
    \/ Annotate(r)
    \/ MetadataSettles(r)
    \/ CompositeSettles(r)
    \/ Settled(r)

SpecAnnotate == InitAnnotate /\ [][NextAnnotate]_vars

-----------------------------------------------------------------------------
(* Properties of buildSvg and getColor, on the call that has just returned *)

IsBuild == call.op = "buildSvg"
BuildReturned == IsBuild /\ ~call.threw

RECURSIVE ElementsInOrder(_)
ElementsInOrder(steps) ==
  IF steps = <<>> THEN <<>>
  ELSE (IF Head(steps).element # <<>> THEN <<Head(steps).element>> ELSE <<>>)
       \o ElementsInOrder(Tail(steps))

TagPositions(svg, tags) == {p \in 1..Len(svg) : svg[p].tag \in tags}

\* The document ends with the element markup of the rendered annotations in
\* input order, directly after the one </defs>.
ElementsFollowDefsInOrder(svg, steps) ==
  /\ Cardinality(TagPositions(svg, {"defs"})) = 1
  /\ Cardinality(TagPositions(svg, {"/defs"})) = 1
  /\ \A p \in TagPositions(svg, {"defs"}), q \in TagPositions(svg, {"/defs"}) :
       /\ p < q
       /\ SubSeq(svg, q + 1, Len(svg))
            = Join(ElementsInOrder(steps), <<NL>>) \o <<[tag |-> "/svg"]>>

\* C1: in the document buildSvg returns, the element markup of the rendered
\* annotations stands in exactly the input order (the i-th step of the loop
\* is the i-th annotation), and all of it follows the single <defs> block.
C1_PaintOrder ==
  BuildReturned =>
    /\ Len(call.steps) = Len(call.annotations)
    /\ \A i \in 1..Len(call.steps) : call.steps[i].index = i
    /\ ElementsFollowDefsInOrder(call.svg, call.steps)

C1_Witness ==
  /\ BuildReturned
  /\ \E i, j \in 1..Len(call.steps) :
       /\ i < j
       /\ call.steps[i].element # <<>>
       /\ call.steps[j].element # <<>>
       /\ call.steps[i].element # call.steps[j].element

\* The type names of the documentation: eleven canonical names, six aliases.
KnownType(d) == TypeOf(d) \in CanonicalTypes \cup DOMAIN Aliases
CanonicalOf(d) ==
  IF TypeOf(d) \in DOMAIN Aliases THEN Aliases[TypeOf(d)] ELSE TypeOf(d)

\* A colour as the documentation gives it: a palette name or a colour
\* literal (or none).
ColorLiterals == {"#123456", "papayawhip", "rgb(1,2,3)", ""}
DocumentedColor(d, f) ==
  f \in DOMAIN d =>
    \/ d[f] = Undefined
    \/ IsString(d[f]) /\ d[f][2] \in DOMAIN COLORS \cup ColorLiterals

\* A descriptor of the documented shape for its type (annotate.js:679-711).
WellFormed(d) ==
  LET t == CanonicalOf(d)
      required ==
        CASE t = "marker" -> {"x", "y", "number"}
          [] t \in {"arrow", "curved-arrow", "connector"} -> {"from", "to"}
          [] t \in {"callout", "label"} -> {"x", "y", "text"}
          [] t \in {"rect", "highlight", "blur"} -> {"x", "y", "width", "height"}
          [] t = "circle" -> {"x", "y"}
          [] t = "icon" -> {"x", "y", "icon"}
  IN /\ required \subseteq DOMAIN d
     /\ "text" \in required => IsString(d.text)
     /\ t = "marker" /\ "style" \in DOMAIN d => d.style \in {"filled", "outline", "badge"}
     /\ DocumentedColor(d, "color")
     /\ DocumentedColor(d, "background")
     /\ DocumentedColor(d, "fill")

KnownOnes(annotations) == SelectSeq(annotations, KnownType)

RECURSIVE UnknownTypes(_)
UnknownTypes(annotations) ==
  IF annotations = <<>> THEN <<>>
  ELSE (IF KnownType(Head(annotations)) THEN <<>> ELSE <<TypeOf(Head(annotations))>>)
       \o UnknownTypes(Tail(annotations))

\* C2: when every annotation of a known type is well-formed, buildSvg does
\* not throw whatever unknown types the list holds and wherever they stand:
\* each unknown one gets one diagnostic, exactly the known ones give an
\* element, and the document is the one built from the known ones alone.
C2_UnknownTypeSkipped ==
  (IsBuild /\ \A i \in 1..Len(call.annotations) :
                KnownType(call.annotations[i]) => WellFormed(call.annotations[i]))
  =>
    /\ ~call.threw
    /\ call.warnings = UnknownTypes(call.annotations)
    /\ {i \in 1..Len(call.steps) : call.steps[i].element # <<>>}
         = {i \in 1..Len(call.annotations) : KnownType(call.annotations[i])}
    /\ call.svg = buildSvg(0, THEMES, call.width, call.height,
                           KnownOnes(call.annotations), call.theme).svg

C2_Witness ==
  /\ BuildReturned
  /\ Len(call.annotations) = 3
  /\ TypeOf(call.annotations[2]) = "sparkle"
  /\ KnownType(call.annotations[1]) /\ WellFormed(call.annotations[1])
  /\ KnownType(call.annotations[3]) /\ WellFormed(call.annotations[3])
  /\ Len(ElementsInOrder(call.steps)) = 2
  /\ call.warnings = <<"sparkle">>

\* The theme defines defaults for the type.
HasDefaults(theme, type) == theme \in DOMAIN THEMES /\ type \in DOMAIN THEMES[theme]

\* C3: the descriptor handed to the compiler carries every field of the
\* annotation with the annotation's value, and every other field of the
\* theme's defaults for that type with the default's value; where the theme
\* has no defaults for the type it is the annotation itself.
C3_ThemePrecedence ==
  IsBuild =>
    \A i \in 1..Len(call.steps) :
      LET ann == call.annotations[i]
          merged == call.steps[i].mergedAnn
      IN IF HasDefaults(call.theme, TypeOf(ann))
           THEN /\ DOMAIN merged = DOMAIN ann \cup DOMAIN THEMES[call.theme][TypeOf(ann)]
                /\ \A f \in DOMAIN merged :
                     merged[f] = IF f \in DOMAIN ann THEN ann[f]
                                 ELSE THEMES[call.theme][TypeOf(ann)][f]
         ELSE merged = ann

C3_Witness ==
  /\ BuildReturned
  /\ call.theme = "tutorial"
  /\ Len(call.steps) = 1
  /\ TypeOf(call.annotations[1]) = "marker"
  /\ "color" \in DOMAIN call.annotations[1]
  /\ "size" \notin DOMAIN call.annotations[1]
  /\ call.annotations[1].color = Str("blue")
  /\ call.steps[1].mergedAnn.color = Str("blue")
  /\ call.steps[1].mergedAnn.size = 32

\* C4: when buildSvg has returned or thrown, the caller's annotations are
\* what was passed in and the THEMES table is what it was.
C4_InputNotMutated ==
  /\ themes = THEMES
  /\ IsBuild => call.after = call.annotations

C4_Witness ==
  /\ IsBuild
  /\ call.threw
  /\ \E i \in 1..Len(call.steps) :
       call.steps[i].mergedAnn # call.annotations[i]

\* C5: getColor gives the palette value for a palette name, the string
\* itself for any other non-empty string, #E53935 for a falsy input, and
\* always a string.
C5_ColorResolution ==
  call.op = "getColor" =>
    /\ IsString(call.returned)
    /\ (IsString(call.color) /\ call.color[2] \in DOMAIN COLORS)
         => call.returned = Str(COLORS[call.color[2]])
    /\ (IsString(call.color) /\ call.color[2] \notin DOMAIN COLORS \cup {""})
         => call.returned = call.color
    /\ ~Truthy(call.color) => call.returned = Str("#E53935")

\* the decimal number a sequence of digit characters writes
RECURSIVE ParseDigits(_, _)
ParseDigits(chars, acc) ==
  IF chars = <<>> THEN acc
  ELSE ParseDigits(Tail(chars),
                   acc * 10 + (CHOOSE n \in 0..9 : DigitChar(n) = Head(chars)))

\* the counter value in an id `${prefix}-${n}`
IdCounterValue(id) == ParseDigits(SubSeq(id, 3, Len(id)), 0)

IssuedIds(steps) == {i \in 1..Len(steps) : steps[i].id # NoId}

\* C6: whatever was built before in the process, buildSvg returns (or
\* throws) what it does in a fresh process, and the first id it issues
\* carries the counter value 1.
C6_Reproducible ==
  IsBuild =>
    /\ \E fresh \in {buildSvg(0, THEMES, call.width, call.height,
                              call.annotations, call.theme)} :
         call.svg = fresh.svg /\ call.threw = fresh.threw
    /\ \A i \in IssuedIds(call.steps) :
         (\A j \in IssuedIds(call.steps) : i <= j)
           => IdCounterValue(call.steps[i].id) = 1

C6_Witness ==
  /\ BuildReturned
  /\ call.counterBefore > 1
  /\ Cardinality(IssuedIds(call.steps)) > 1
  /\ TagPositions(call.svg, {"filter"}) # {}

DefinitionTags == {"filter", "linearGradient", "marker"}

\* C7: in one document no two definitions have the same id, and the counter
\* value of the ids grows strictly from one id-issuing annotation to the next.
C7_UniqueIds ==
  BuildReturned =>
    /\ \A p, q \in TagPositions(call.svg, DefinitionTags) :
         p # q => call.svg[p].id # call.svg[q].id
    /\ \A i, j \in IssuedIds(call.steps) :
         i < j => IdCounterValue(call.steps[i].id) < IdCounterValue(call.steps[j].id)

C7_Witness ==
  /\ BuildReturned
  /\ Len(call.steps) = 3
  /\ \A i \in 1..3 : call.steps[i].arm = "createMarker" /\ call.steps[i].defs # <<>>
  /\ Cardinality(TagPositions(call.svg, DefinitionTags)) = 6

\* The mapping as documented: each canonical type has its compiler, an alias
\* has the compiler of its canonical type.
CompilerOf(type) ==
  CASE type = "marker" -> "createMarker"
    [] type = "arrow" -> "createArrow"
    [] type = "curved-arrow" -> "createCurvedArrow"
    [] type = "callout" -> "createCallout"
    [] type = "rect" -> "createRect"
    [] type = "circle" -> "createCircle"
    [] type = "label" -> "createLabel"
    [] type = "highlight" -> "createHighlight"
    [] type = "blur" -> "createBlur"
    [] type = "connector" -> "createConnector"
    [] type = "icon" -> "createIcon"

\* C8: an annotation of a canonical type goes to that type's compiler, one
\* of an alias type to the compiler of its canonical type, and every other
\* type to the skip arm, which writes a diagnostic and issues no id.
C8_DispatchClosed ==
  IsBuild =>
    /\ \A i \in 1..Len(call.steps) :
         IF KnownType(call.annotations[i])
           THEN call.steps[i].arm = CompilerOf(CanonicalOf(call.annotations[i]))
         ELSE /\ call.steps[i].arm = "skip"
              /\ call.steps[i].id = NoId
              /\ call.steps[i].element = <<>>
    /\ Len(call.warnings) = Len(UnknownTypes(SubSeq(call.annotations, 1, Len(call.steps))))

C8_Witness ==
  /\ BuildReturned
  /\ Len(call.steps) = 2
  /\ TypeOf(call.annotations[1]) = "box"
  /\ call.steps[1].arm = "createRect"
  /\ call.steps[1].id = <<"rect", "-", "1">>
  /\ TypeOf(call.annotations[2]) = "sparkle"
  /\ call.steps[2].arm = "skip"

-----------------------------------------------------------------------------
(* Properties of annotateImage                                             *)

NotFound(req) == req.pc = "rejected" /\ req.error = "Input file not found"

\* C9: a call of annotateImage whose input path does not exist is rejected
\* with the not-found error in that very step: no metadata read is started,
\* nothing is built (idCounter and THEMES stay), no file is written; and the
\* rejected request does nothing more until the caller takes the error.
C9_NotFoundFirst ==
  [][\A r \in Requests :
       /\ (reqs[r].pc = "idle" /\ reqs'[r].pc # "idle"
             /\ ~existsSync(files, reqs'[r].inputPath))
            => /\ NotFound(reqs'[r])
               /\ reqs'[r].log = <<>>
               /\ reqs'[r].svg = <<>>
               /\ idCounter' = idCounter
               /\ themes' = themes
               /\ files' = files
       /\ NotFound(reqs[r]) => reqs'[r] \in {reqs[r], Idle}]_vars

C9_Witness ==
  \E r \in Requests :
    /\ NotFound(reqs[r])
    /\ reqs[r].inputPath = "missing.png"
    /\ reqs[r].log = <<>>
    /\ idCounter > 0
    /\ reqs[r].outputPath \notin DOMAIN files

Positions(log, event) == {i \in 1..Len(log) : log[i] = event}

\* every occurrence of `later` has an occurrence of `earlier` before it
Precedes(log, earlier, later) ==
  \A j \in Positions(log, later) : \E i \in Positions(log, earlier) : i < j

\* C10: in every request the metadata read is done before the build starts
\* and the build is done before the compositing starts; a request whose
\* metadata read failed or whose build threw never starts the compositing.
C10_StepOrder ==
  \A r \in Requests :
    LET log == reqs[r].log
    IN /\ Precedes(log, "metadata:start", "metadata:done")
       /\ Precedes(log, "metadata:done", "build:start")
       /\ Precedes(log, "build:start", "build:done")
       /\ Precedes(log, "build:done", "composite:start")
       /\ Precedes(log, "composite:start", "composite:done")
       /\ (Positions(log, "metadata:failed") # {} \/ Positions(log, "build:threw") # {})
            => Positions(log, "composite:start") = {}
       /\ reqs[r].pc = "composite" <=>
            (Positions(log, "composite:start") # {}
             /\ Positions(log, "composite:done") = {}
             /\ Positions(log, "composite:failed") = {})

C10_Witness ==
  \E r, q \in Requests :
    /\ reqs[r].log = <<"metadata:start", "metadata:done", "build:start",
                       "build:done", "composite:start", "composite:done">>
    /\ reqs[q].log = <<"metadata:start", "metadata:done", "build:start",
                       "build:threw">>

-----------------------------------------------------------------------------
(* Properties of annotateImage's document and of what it returns           *)

\* The requests that hold a built document.
HasDocument(req) == req.pc \in {"composite", "resolved"}

\* The root element of a document: the <svg ...> tag.
RootElements(svg) == {i \in 1..Len(svg) : svg[i].tag = "svg"}

\* C11: the document of a request is sized by the metadata read of its input
\* path: the root element's width and height are the measured width and
\* height of the image at inputPath, whatever the caller's options carry.
C11_MeasuredDimensions ==
  \A r \in Requests :
    HasDocument(reqs[r]) =>
      /\ Cardinality(RootElements(reqs[r].svg)) = 1
      /\ \A i \in RootElements(reqs[r].svg) :
           /\ reqs[r].svg[i].width = files[reqs[r].inputPath].width
           /\ reqs[r].svg[i].height = files[reqs[r].inputPath].height

C11_Witness ==
  \E r \in Requests :
    /\ HasDocument(reqs[r])
    /\ reqs[r].inputPath = "banner.png"
    /\ "width" \in DOMAIN reqs[r].options
    /\ reqs[r].options.width = 640
    /\ reqs[r].svg[2].width = 200
    /\ reqs[r].svg[2].height = 50

\* C12: a request that succeeded returned {outputPath, width, height,
\* annotationCount}: the output path it was called with, the measured width
\* and height of its input image, and the length of its annotation list
\* (annotations of unknown type included).
C12_Summary ==
  \A r \in Requests :
    reqs[r].pc = "resolved" =>
      /\ DOMAIN reqs[r].result = {"outputPath", "width", "height", "annotationCount"}
      /\ reqs[r].result.outputPath = reqs[r].outputPath
      /\ reqs[r].result.width = files[reqs[r].inputPath].width
      /\ reqs[r].result.height = files[reqs[r].inputPath].height
      /\ reqs[r].result.annotationCount = Len(reqs[r].annotations)

C12_Witness ==
  \E r \in Requests :
    /\ reqs[r].pc = "resolved"
    /\ reqs[r].inputPath = "banner.png"
    /\ \E i \in 1..Len(reqs[r].annotations) :
         TypeOf(reqs[r].annotations[i]) = "sparkle"
    /\ reqs[r].result =
         [outputPath |-> "out.png", width |-> 200, height |-> 50,
          annotationCount |-> 3]

\* The last event of a request's log ("" for an empty log).
LastEvent(req) == IF req.log = <<>> THEN "" ELSE req.log[Len(req.log)]

\* The request failed at its metadata read, in its build or at its composite.
Failed(req) ==
  /\ req.pc = "rejected"
  /\ LastEvent(req) \in {"metadata:failed", "build:threw", "composite:failed"}

\* What the request's build gives in a process that has built nothing yet.
FreshDocument(req) ==
  buildSvg(0, THEMES, req.width, req.height, req.annotations,
           OptionsTheme(req.options))

\* C13: a failure is fatal for its request only.  The step in which a
\* request fails (metadata read, build throwing part-way, composite) changes
\* no other request, not THEMES and not the filesystem; and a request that
\* builds while a failed one is still there gets exactly the outcome of a
\* fresh process: same document or same throw, same counter left behind.
C13_FailureIsLocal ==
  [][\A r \in Requests :
       /\ (~Failed(reqs[r]) /\ Failed(reqs'[r])) =>
            /\ \A q \in Requests \ {r} : reqs'[q] = reqs[q]
            /\ themes' = themes
            /\ files' = files
       /\ ((\E q \in Requests \ {r} : Failed(reqs[q]))
             /\ reqs[r].pc = "metadata"
             /\ "build:start" \in {reqs'[r].log[i] : i \in 1..Len(reqs'[r].log)}) =>
            /\ (reqs'[r].pc = "rejected") = FreshDocument(reqs'[r]).threw
            /\ reqs'[r].svg = FreshDocument(reqs'[r]).svg
            /\ idCounter' = FreshDocument(reqs'[r]).counter
            /\ themes' = THEMES]_vars

\* A build that threw after issuing two ids, and a later build that found
\* the counter at 2 and returned the fresh document all the same.
C13_Witness ==
  \E r, q \in Requests :
    /\ Failed(reqs[q])
    /\ LastEvent(reqs[q]) = "build:threw"
    /\ reqs[q].counterBefore = 0
    /\ HasDocument(reqs[r])
    /\ reqs[r].counterBefore = 2
    /\ reqs[r].svg = FreshDocument(reqs[r]).svg
    /\ idCounter = FreshDocument(reqs[r]).counter

\* C14: with requests interleaving at the two awaits, each request holds the
\* document it gets when it runs alone in a process, and the definitions of
\* each document have pairwise distinct ids.
C14_InterleavedAsAlone ==
  \A r \in Requests :
    HasDocument(reqs[r]) =>
      /\ reqs[r].svg = FreshDocument(reqs[r]).svg
      /\ \A p, q \in TagPositions(reqs[r].svg, DefinitionTags) :
           p # q => reqs[r].svg[p].id # reqs[r].svg[q].id

\* Both requests await their composite: the second was started and built
\* its document while the first was in flight, each from its own list.
C14_Witness ==
  \E r, q \in Requests :
    /\ reqs[r].pc = "composite"
    /\ reqs[q].pc = "composite"
    /\ reqs[r].annotations # reqs[q].annotations
    /\ reqs[r].counterBefore = 0
    /\ reqs[q].counterBefore > 0
    /\ Cardinality(TagPositions(reqs[q].svg, DefinitionTags)) > 1

\* The list holds a descriptor that lacks a field its compiler needs.
HasMalformed(annotations) ==
  \E i \in 1..Len(annotations) : annotations[i] \in MalformedDescriptors

\* C15: a request whose list holds a malformed descriptor ends rejected, and
\* when it is rejected nothing has been done for it: its log holds no
\* metadata read and no build (so no compiler has run and no id was issued).
C15_MalformedRejectedFirst ==
  \A r \in Requests :
    (reqs[r].pc \in {"rejected", "resolved"} /\ HasMalformed(reqs[r].annotations)) =>
      /\ reqs[r].pc = "rejected"
      /\ reqs[r].log = <<>>

-----------------------------------------------------------------------------
(* Properties of the shape compilers, on the build that has just returned  *)

\* The descriptors with geometry and content only, one per supported type.
DefaultDescriptors == {Minimal(t) : t \in CanonicalTypes}

\* C16: a descriptor of a supported type that carries its geometry and its
\* content and none of the optional fields compiles without throwing, in the
\* compiler of its type, to a fragment whose element is not empty.
C16_DefaultsNeverThrow ==
  IsBuild =>
    \A i \in 1..Len(call.steps) :
      call.steps[i].mergedAnn \in DefaultDescriptors =>
        /\ ~call.steps[i].threw
        /\ call.steps[i].arm = CompilerOf(call.steps[i].mergedAnn.type)
        /\ call.steps[i].element # <<>>

C16_Witness ==
  /\ BuildReturned
  /\ call.theme = ""
  /\ call.annotations = <<Minimal("callout")>>
  /\ call.steps[1].mergedAnn = Minimal("callout")
  /\ call.steps[1].element # <<>>
  /\ TagPositions(call.svg, {"text"}) # {}

\* The widths (in tenths) of the rectangles of a piece of markup.
RectWidths(markup) ==
  {markup[p].width10 : p \in TagPositions(markup, {"rect"})}

\* The same badge marker with another number.
Renumbered(d, n) == [d EXCEPT !.number = n]

\* C17: a badge marker with a number of two or more digits has a pill
\* strictly wider than the same marker (same size) with a one-digit number.
C17_BadgeWidens ==
  BuildReturned =>
    \A i \in 1..Len(call.steps) :
      LET d == call.steps[i].mergedAnn
      IN (/\ call.steps[i].arm = "createMarker"
          /\ Get(d, "style", "filled") = "badge"
          /\ "number" \in DOMAIN d
          /\ d.number >= 10) =>
           \A n \in 0..9 :
             \A wide \in RectWidths(call.steps[i].element),
                narrow \in RectWidths(createMarker(Renumbered(d, n), 0).element) :
               wide > narrow

\* The five entities and the character each stands for.
Entities ==
  {<<Amp, "&">>, <<Lt, "<">>, <<Gt, ">">>, <<Quot, "\"">>, <<Apos, "'">>}

StartsWith(chars, prefix) ==
  Len(chars) >= Len(prefix) /\ SubSeq(chars, 1, Len(prefix)) = prefix

\* What an XML reader makes of the characters of a text node: each entity
\* is read as its character, once; an ampersand that starts no entity is
\* kept as "stray &".
RECURSIVE Unescape(_)
Unescape(chars) ==
  IF chars = <<>> THEN <<>>
  ELSE IF Head(chars) # "&" THEN <<Head(chars)>> \o Unescape(Tail(chars))
  ELSE IF \E e \in Entities : StartsWith(chars, e[1])
    THEN LET e == CHOOSE f \in Entities : StartsWith(chars, f[1])
         IN <<e[2]>> \o Unescape(SubSeq(chars, Len(e[1]) + 1, Len(chars)))
  ELSE <<"stray &">> \o Unescape(Tail(chars))

NoRawMarkup(chars) ==
  \A k \in 1..Len(chars) : chars[k] \notin {"<", ">", "\"", "'"}

\* The characters of the text nodes of a piece of markup, in order.
TextNodes(markup, tag) ==
  LET nodes == SelectSeq(markup, LAMBDA e : e.tag = tag)
  IN [k \in 1..Len(nodes) |-> nodes[k].chars]

RECURSIVE UnescapedLines(_)
UnescapedLines(nodes) ==
  IF nodes = <<>> THEN <<>>
  ELSE <<Unescape(Head(nodes))>> \o UnescapedLines(Tail(nodes))

\* C18: the text node of a label, and each line of a callout, holds no raw
\* '<', '>', '"' or apostrophe, and reads back as exactly the text given:
\* every character escaped once, '&' as &amp;.  The lines of a callout hold
\* no newline and, joined by newlines, read back as the callout's text.
C18_TextEscapedOnce ==
  BuildReturned =>
    \A i \in 1..Len(call.steps) :
      LET d == call.steps[i].mergedAnn
          element == call.steps[i].element
      IN /\ (call.steps[i].arm = "createLabel" /\ IsString(d.text)) =>
              /\ Len(TextNodes(element, "text")) = 1
              /\ NoRawMarkup(TextNodes(element, "text")[1])
              /\ Unescape(TextNodes(element, "text")[1]) = d.text[2]
         /\ call.steps[i].arm = "createCallout" =>
              /\ \A k \in 1..Len(TextNodes(element, "tspan")) :
                   /\ NoRawMarkup(TextNodes(element, "tspan")[k])
                   /\ "\n" \notin {TextNodes(element, "tspan")[k][j] :
                                      j \in 1..Len(TextNodes(element, "tspan")[k])}
              /\ Join(UnescapedLines(TextNodes(element, "tspan")), <<"\n">>)
                   = d.text[2]

C18_Witness ==
  /\ BuildReturned
  /\ Len(call.steps) = 1
  /\ call.steps[1].arm = "createLabel"
  /\ call.steps[1].mergedAnn.text = Str(TextQuoted)
  /\ TextNodes(call.steps[1].element, "text")
       = << Quot \o <<"a">> \o Apos \o Amp \o <<"a", "m", "p", ";">> >>

\* The attributes that can carry a url(#id) reference.
ReferenceAttributes == {"filter", "markerEnd", "fill"}

IsUrl(v) == v # <<>> /\ v[1] = "url"

\* The ids a document's elements refer to.
ReferencedIds(svg) ==
  {SubSeq(svg[p][f], 2, Len(svg[p][f])) :
     <<p, f>> \in {pf \in (1..Len(svg)) \X ReferenceAttributes :
                     /\ pf[2] \in DOMAIN svg[pf[1]]
                     /\ IsUrl(svg[pf[1]][pf[2]])}}

\* The ids defined between <defs> and </defs>.
DefinedIds(svg) ==
  {svg[p].id : p \in {q \in TagPositions(svg, DefinitionTags) :
                        /\ \E a \in TagPositions(svg, {"defs"}) : a < q
                        /\ \E b \in TagPositions(svg, {"/defs"}) : q < b}}

\* C19: every url(#id) reference of the document (filter, marker-end,
\* gradient fill) names an id defined in the document's <defs> block.
C19_ReferencesResolve ==
  BuildReturned => ReferencedIds(call.svg) \subseteq DefinedIds(call.svg)

\* The aliases of a type.
AliasesOf(type) == {a \in DOMAIN Aliases : Aliases[a] = type}

\* The list with its i-th descriptor given another type.
RetypedAt(annotations, i, type) ==
  [annotations EXCEPT ![i] = Retyped(@, type)]

\* C20: under every theme, giving a descriptor of a canonical type one of
\* the type's aliases instead leaves the outcome of the build unchanged:
\* the same document, theme defaults included, or the same throw.
C20_AliasEquivalentUnderTheme ==
  IsBuild =>
    \A i \in 1..Len(call.annotations) :
      \A a \in AliasesOf(TypeOf(call.annotations[i])) :
        \E aliased \in {buildSvg(0, THEMES, call.width, call.height,
                                  RetypedAt(call.annotations, i, a), call.theme)} :
          /\ aliased.threw = call.threw
          /\ aliased.svg = call.svg

====
